---------------------------- MODULE Spec2Model ----------------------------
(***************************************************************************)
(* Model of the arbitrage detection engine of src/main.py:                 *)
(*   simulate_swap (lines 93-102), find_arbitrage_opportunities (lines     *)
(*   105-135) and the polling loop of main (lines 198-202).                *)
(*                                                                         *)
(* All amounts are decimal.Decimal values computed under the context set   *)
(* at line 22 (prec = 28, ROUND_HALF_EVEN, traps on InvalidOperation and   *)
(* DivisionByZero).  A Decimal is modelled as the triple (sign, int, exp)  *)
(* the decimal module keeps: the value is (-1)^sign * int * 10^exp, with   *)
(* int a sequence of decimal digits, most significant first.  Exponents    *)
(* stay many orders of magnitude inside [Emin, Emax] = [-999999, 999999],  *)
(* so overflow and underflow are not modelled.                             *)
(***************************************************************************)
EXTENDS Integers, Sequences, FiniteSets, TLC

\* getcontext().prec = 28
Prec == 28

-----------------------------------------------------------------------------
(* Natural numbers of arbitrary size: sequences of decimal digits, most    *)
(* significant first, <<0>> for zero (the coefficient string _int).        *)
(* The arithmetic works on limbs: a number of n digits is cut, from its    *)
(* last digit, in groups of w digits, each group one integer below 10^w.   *)
(* Sums and differences use w = 8 (twice 10^8 fits an integer of 32       *)
(* bits), products and quotients w = 4 (a column of the products of the    *)
(* limbs of two coefficients of Prec digits, each below 10^8, fits).       *)

Max(a, b) == IF a >= b THEN a ELSE b
Min(a, b) == IF a <= b THEN a ELSE b

Zeros(n) == [i \in 1..n |-> 0]

\* the sequence f with its elements computed once
Tuple(f) == f \o << >>

\* the least element of a nonempty set of integers
Least(S) == CHOOSE i \in S : \A j \in S : i <= j

\* s from its first digit found in nz, <<0>> if there is none
StripTo(s, nz) == IF nz = {} THEN <<0>> ELSE SubSeq(s, Least(nz), Len(s))

\* Drop leading zeros, keeping at least one digit.
Strip(s) ==
    IF s # <<>> /\ s[1] # 0 THEN s
    ELSE StripTo(s, {i \in 1..Len(s) : s[i] # 0})

IsZeroN(s) == s = <<0>>

Pow10 == << 1, 10, 100, 1000, 10000, 100000, 1000000, 10000000, 100000000 >>

\* the bases of the limbs of 4 and of 8 digits
Base4 == Pow10[5]
Base8 == Pow10[9]

\* the digit of s at position p, 0 before the first digit
DigitAt(s, p) == IF p >= 1 THEN s[p] ELSE 0

\* the number of limbs of w digits that hold n digits
LimbsFor(n, w) == Max(1, (n + w - 1) \div w)

\* the limb of 4 digits of s that ends at position p
Limb4(s, p) ==
    DigitAt(s, p) + 10 * DigitAt(s, p - 1) + 100 * DigitAt(s, p - 2)
    + 1000 * DigitAt(s, p - 3)

\* s as L limbs of 4 digits, and as L limbs of 8 digits
ToLimbs4(s, L) == Tuple([i \in 1..L |-> Limb4(s, Len(s) - 4 * (L - i))])
ToLimbs8(s, L) ==
    Tuple([i \in 1..L |-> Limb4(s, Len(s) - 8 * (L - i))
                          + 10000 * Limb4(s, Len(s) - 8 * (L - i) - 4)])

\* the digits of the limbs l of w digits
FromLimbs(l, w) ==
    Strip(Tuple([j \in 1..(w * Len(l)) |->
                    (l[((j - 1) \div w) + 1] \div Pow10[w - ((j - 1) % w)]) % 10]))

RECURSIVE CmpFrom(_, _, _)
\* the comparison of a and b from limb i on
CmpFrom(a, b, i) ==
    IF i > Len(a) THEN 0
    ELSE IF a[i] < b[i] THEN -1
    ELSE IF a[i] > b[i] THEN 1
    ELSE CmpFrom(a, b, i + 1)

\* -1, 0, 1 as a < b, a = b, a > b, for a and b of the same length
LCmp(a, b) == CmpFrom(a, b, 1)

\* -1, 0, 1 as a < b, a = b, a > b (a, b stripped).
NCmp(a, b) ==
    IF Len(a) < Len(b) THEN -1
    ELSE IF Len(a) > Len(b) THEN 1
    ELSE LCmp(a, b)

\* the carry into limb i of the limb sums s: a limb below it overflows and
\* every limb between is full
CarryIn(s, i, base) ==
    IF \E j \in (i + 1)..Len(s) :
           s[j] >= base /\ \A k \in (i + 1)..(j - 1) : s[k] = base - 1
    THEN 1 ELSE 0

Carry(s, base) == Tuple([i \in 1..Len(s) |-> (s[i] + CarryIn(s, i, base)) % base])

\* a + b on limbs, the first limb with room for the carry
LAdd(a, b, base) == Carry(Tuple([i \in 1..Len(a) |-> a[i] + b[i]]), base)

\* the borrow from limb i of a - b: a limb below it is short and every limb
\* between is level
BorrowFrom(a, b, i) ==
    IF \E j \in (i + 1)..Len(a) :
           a[j] < b[j] /\ \A k \in (i + 1)..(j - 1) : a[k] = b[k]
    THEN 1 ELSE 0

\* a - b on limbs, for a >= b
LSub(a, b, base) ==
    Tuple([i \in 1..Len(a) |-> (a[i] - b[i] - BorrowFrom(a, b, i) + base) % base])

NAdd(a, b) ==
    FromLimbs(LAdd(ToLimbs8(a, LimbsFor(Max(Len(a), Len(b)) + 1, 8)),
                   ToLimbs8(b, LimbsFor(Max(Len(a), Len(b)) + 1, 8)), Base8), 8)

\* a - b for a >= b.
NSub(a, b) ==
    FromLimbs(LSub(ToLimbs8(a, LimbsFor(Len(a), 8)), ToLimbs8(b, LimbsFor(Len(a), 8)),
                   Base8), 8)

RECURSIVE ColSum(_, _, _, _, _)
\* sum over i in lo..hi of (limb i of a) * (limb k - i of b), limbs counted
\* from the least significant one, starting at 0
ColSum(a, b, k, lo, hi) ==
    IF lo > hi THEN 0
    ELSE IF lo = hi THEN a[Len(a) - lo] * b[Len(b) - (k - lo)]
    ELSE ColSum(a, b, k, lo, (lo + hi) \div 2)
         + ColSum(a, b, k, ((lo + hi) \div 2) + 1, hi)

\* a limb of 4 digits and the carry out of it
Digit(t) == [d |-> <<t % Base4>>, c |-> t \div Base4]

\* the limbs of the low part r followed by those of the high part l
Join(r, l) == [d |-> l.d \o r.d, c |-> l.c]

RECURSIVE MulRange(_, _, _, _, _)
MulHigh(a, b, klo, khi, r) == Join(r, MulRange(a, b, klo, khi, r.c))

\* columns klo..khi of a * b on limbs of 4 digits (column 0 the least
\* significant) given the carry into column klo; c is the carry out
MulRange(a, b, klo, khi, carry) ==
    IF klo = khi
    THEN Digit(carry + ColSum(a, b, klo, Max(0, klo - Len(b) + 1), Min(klo, Len(a) - 1)))
    ELSE MulHigh(a, b, ((klo + khi) \div 2) + 1, khi,
                 MulRange(a, b, klo, (klo + khi) \div 2, carry))

LMul(a, b) == MulRange(a, b, 0, Len(a) + Len(b) - 1, 0).d

NMul(a, b) ==
    IF IsZeroN(a) \/ IsZeroN(b) THEN <<0>>
    ELSE FromLimbs(LMul(ToLimbs4(a, LimbsFor(Len(a), 4)),
                        ToLimbs4(b, LimbsFor(Len(b), 4))), 4)

\* a * 10^k
NShift(a, k) == IF IsZeroN(a) \/ k <= 0 THEN a ELSE a \o Zeros(k)

(* Long division on limbs of 4 digits, one limb of the dividend at a time. *)
(* Dividend and divisor are first multiplied by f, which brings the first  *)
(* limb of the divisor to Base4 / 2 at least: the quotient limb estimated   *)
(* from the first limbs is then at most 2 too large.                       *)

\* d * q for a limb q, the first limb of d being 0
LScale(d, q) ==
    Carry(Tuple([i \in 1..Len(d) |->
                    ((d[i] * q) % Base4)
                    + (IF i < Len(d) THEN (d[i + 1] * q) \div Base4 ELSE 0)]), Base4)

\* the quotient limb q of cur, t = q * d, and what is left
DivLimb(cur, q, t) == [q |-> <<q>>, r |-> LSub(cur, t, Base4)]

RECURSIVE Correct(_, _, _, _)
\* the largest quotient limb not above q: t = q * d
Correct(d, cur, q, t) ==
    IF LCmp(t, cur) <= 0 THEN DivLimb(cur, q, t)
    ELSE Correct(d, cur, q - 1, LScale(d, q - 1))

\* one step of the long division, q the estimate of the quotient limb
DivStep(d, cur, q) ==
    IF q = 0 THEN [q |-> <<0>>, r |-> cur] ELSE Correct(d, cur, q, LScale(d, q))

\* the estimate: the first two limbs of cur by the first limb of the divisor
Estimate(d, cur) == Min(((cur[1] * Base4) + cur[2]) \div d[2], Base4 - 1)

\* rem * Base4 + limb, rem < d
ShiftIn(rem, limb) == Append(Tail(rem), limb)

\* the quotient limbs of l followed by those of r, and the remainder of r
JoinQ(l, r) == [q |-> l.q \o r.q, r |-> r.r]

RECURSIVE DivRange(_, _, _, _, _)
\* the limbs lo..hi, l the division of the limbs before them
DivLow(a, d, lo, hi, l) == JoinQ(l, DivRange(a, d, lo, hi, l.r))

DivAt(d, cur) == DivStep(d, cur, Estimate(d, cur))

\* long division over the limbs lo..hi of a, entered with remainder rem:
\* q holds the quotient limbs of lo..hi, r the remainder left
DivRange(a, d, lo, hi, rem) ==
    IF lo = hi
    THEN DivAt(d, ShiftIn(rem, a[lo]))
    ELSE DivLow(a, d, ((lo + hi) \div 2) + 1, hi,
                DivRange(a, d, lo, (lo + hi) \div 2, rem))

\* the digits of the quotient, and whether nothing is left
StripQ(res) == [q |-> FromLimbs(res.q, 4), exact |-> \A i \in 1..Len(res.r) : res.r[i] = 0]

\* the factor that brings the first limb d1 of a divisor to Base4 / 2 at least
Factor(d1) == Base4 \div (d1 + 1)

\* a by d, limbs with a first limb 0, f the factor
DivScaled(a, d, f) ==
    StripQ(DivRange(LScale(a, f), LScale(d, f), 1, Len(a), Zeros(Len(d))))

\* a by d, limbs with a first limb 0
LDivMod(a, d) == DivScaled(a, d, Factor(d[2]))

\* divmod(a, b) for b # 0: the quotient, and whether the remainder is 0
NDivMod(a, b) ==
    LDivMod(ToLimbs4(a, LimbsFor(Len(a), 4) + 1), ToLimbs4(b, LimbsFor(Len(b), 4) + 1))

-----------------------------------------------------------------------------
(* decimal.Decimal under the context of line 22.                           *)

Dec(sign, int, exp) == [sign |-> sign, int |-> int, exp |-> exp]

RECURSIVE DigitsOf(_)
DigitsOf(n) == IF n < 10 THEN <<n>> ELSE DigitsOf(n \div 10) \o <<n % 10>>

\* Decimal(n) / Decimal(str(n)) for an integer n
DecInt(n) == IF n < 0 THEN Dec(1, DigitsOf(-n), 0) ELSE Dec(0, DigitsOf(n), 0)

IsZero(x) == IsZeroN(x.int)

AllZerosFrom(s, i) == \A j \in i..Len(s) : s[j] = 0

\* ROUND_HALF_EVEN on keeping the first `keep` digits of s: TRUE when the
\* kept coefficient is incremented.
RoundsUp(s, keep) ==
    LET nxt == s[keep + 1]
    IN  IF nxt > 5 THEN TRUE
        ELSE IF nxt < 5 THEN FALSE
        ELSE IF ~AllZerosFrom(s, keep + 2) THEN TRUE
        ELSE keep > 0 /\ s[keep] % 2 = 1

\* the rounded coefficient may have grown to Prec + 1 digits (99..9 + 1)
FixCarry(sign, inc, e) ==
    IF Len(inc) > Prec THEN Dec(sign, SubSeq(inc, 1, Prec), e + 1) ELSE Dec(sign, inc, e)

\* Decimal._fix: round the coefficient to at most Prec digits.
Fix(x) ==
    IF IsZero(x) \/ Len(x.int) <= Prec THEN x
    ELSE FixCarry(x.sign,
                  IF RoundsUp(x.int, Prec)
                  THEN NAdd(SubSeq(x.int, 1, Prec), <<1>>)
                  ELSE SubSeq(x.int, 1, Prec),
                  x.exp + Len(x.int) - Prec)

\* Decimal.__mul__
DecMul(x, y) ==
    Fix(Dec((x.sign + y.sign) % 2, NMul(x.int, y.int), x.exp + y.exp))

DecNeg(x) == Dec(1 - x.sign, x.int, x.exp)

\* the difference of two coefficients of opposite signs, c their comparison
\* (the context's rounding is not ROUND_FLOOR: a zero difference is +0)
AddOpposite(sx, cx, sy, cy, e, c) ==
    IF c = 0 THEN Dec(0, <<0>>, e)
    ELSE IF c > 0 THEN Dec(sx, NSub(cx, cy), e)
    ELSE Dec(sy, NSub(cy, cx), e)

\* the exact sum of sx * cx * 10^e and sy * cy * 10^e
AddAligned(sx, cx, sy, cy, e) ==
    IF IsZeroN(cx) /\ IsZeroN(cy) THEN Dec(Min(sx, sy), <<0>>, e)
    ELSE IF sx = sy THEN Dec(sx, NAdd(cx, cy), e)
    ELSE IF IsZeroN(cy) THEN Dec(sx, cx, e)
    ELSE IF IsZeroN(cx) THEN Dec(sy, cy, e)
    ELSE AddOpposite(sx, cx, sy, cy, e, NCmp(cx, cy))

\* Decimal.__add__
DecAdd(x, y) ==
    Fix(AddAligned(x.sign, NShift(x.int, x.exp - Min(x.exp, y.exp)),
                   y.sign, NShift(y.int, y.exp - Min(x.exp, y.exp)),
                   Min(x.exp, y.exp)))

\* Decimal.__sub__
DecSub(x, y) == DecAdd(x, DecNeg(y))

\* an exact quotient is brought as close to the ideal exponent as possible:
\* the number of trailing zeros dropped while the exponent is below the ideal one
Trailing(q, e, ideal) ==
    LET n  == Len(q)
        ks == {k \in 0..Min(n - 1, Max(ideal - e, 0)) :
                   \A j \in (n - k + 1)..n : q[j] = 0}
    IN  CHOOSE m \in ks : \A j \in ks : j <= m

TrimExact(sign, q, e, k) == Dec(sign, SubSeq(q, 1, Len(q) - k), e + k)

\* the quotient dm of the shifted coefficients, as a Decimal
Quotient(sign, dm, e, ideal) ==
    IF ~dm.exact
    THEN Dec(sign, IF dm.q[Len(dm.q)] % 5 = 0 THEN NAdd(dm.q, <<1>>) ELSE dm.q, e)
    ELSE TrimExact(sign, dm.q, e, Trailing(dm.q, e, ideal))

\* x / y for x # 0, y # 0, the coefficient of x shifted by `shift` digits
DivShifted(x, y, shift) ==
    Quotient((x.sign + y.sign) % 2,
             IF shift >= 0
             THEN NDivMod(NShift(x.int, shift), y.int)
             ELSE NDivMod(x.int, NShift(y.int, -shift)),
             x.exp - y.exp - shift,
             x.exp - y.exp)

\* Decimal.__truediv__ for a divisor y # 0
DecDiv(x, y) ==
    IF IsZero(x) THEN Dec((x.sign + y.sign) % 2, <<0>>, x.exp - y.exp)
    ELSE Fix(DivShifted(x, y, Len(y.int) - Len(x.int) + Prec + 1))

\* the comparison of two nonzero Decimals of the same sign, c that of their
\* aligned coefficients
CmpSigned(sign, c) == IF sign = 0 THEN c ELSE -c

\* Decimal._cmp: -1, 0, 1
DecCmp(x, y) ==
    IF IsZero(x) /\ IsZero(y) THEN 0
    ELSE IF IsZero(x) THEN (IF y.sign = 0 THEN -1 ELSE 1)
    ELSE IF IsZero(y) THEN (IF x.sign = 0 THEN 1 ELSE -1)
    ELSE IF x.sign # y.sign THEN (IF x.sign = 0 THEN 1 ELSE -1)
    ELSE CmpSigned(x.sign, NCmp(NShift(x.int, x.exp - Min(x.exp, y.exp)),
                                NShift(y.int, y.exp - Min(x.exp, y.exp))))

\* `x <= 0` / `x >= y` on Decimals
DecLe(x, y) == DecCmp(x, y) <= 0
DecGe(x, y) == DecCmp(x, y) >= 0

-----------------------------------------------------------------------------
(* Inputs.                                                                 *)

\* at most MaxPools pools in a snapshot
MaxPools == 4

Pool(a, b, ra, rb, fee) ==
    [token_a |-> a, token_b |-> b, reserve_a |-> ra, reserve_b |-> rb, fee |-> fee]

\* fetch_all_pools: "fee": Decimal(pool.get("lpFeeRate", "0")) / Decimal("100")
FeeOfRate(rate) == DecDiv(rate, DecInt(100))

FeeFree == FeeOfRate(DecInt(0))
\* lpFeeRate "0.25"
FeeQuarter == FeeOfRate(Dec(0, <<2, 5>>, -2))

PoolSA == Pool("S", "A", DecInt(1000), DecInt(1000), FeeFree)
PoolAB == Pool("A", "B", DecInt(1000), DecInt(1000), FeeFree)
PoolBS == Pool("B", "S", DecInt(1000), DecInt(2000), FeeFree)
\* a second pool of the pair S, B, with one side drained
PoolZero == Pool("S", "B", DecInt(0), DecInt(500), FeeFree)
\* a record with the same mint on both sides
PoolSS == Pool("S", "S", DecInt(1000), DecInt(1000), FeeQuarter)

Catalogue == {PoolSA, PoolAB, PoolBS, PoolZero, PoolSS}

\* the snapshots: lists of different pools of the catalogue
PoolLists ==
    {l \in UNION {[1..n -> Catalogue] : n \in 0..MaxPools} :
        \A i, j \in 1..Len(l) : i # j => l[i] # l[j]}

BaseTokens == {"S", "B"}

\* --amount-in: 0 and DEFAULT_AMOUNT_IN
Amounts == {DecInt(0), DecInt(10)}

\* --min-profit: a negative one and zero
MinProfits == {DecInt(-10), DecInt(0)}

NoToken == "none"

\* the inputs of simulate_swap taken alone
Reserves == {DecInt(0), DecInt(5), DecInt(1000)}
SwapPools ==
    {Pool("S", "A", ra, rb, fee) : ra \in Reserves, rb \in Reserves, fee \in {FeeFree, FeeQuarter}}
SwapTokens == {"S", "A", "B"}
SwapAmounts == {DecInt(0), DecInt(1), DecInt(10)}

-----------------------------------------------------------------------------
(* simulate_swap, lines 93-102.                                            *)

Returned(v) == [raised |-> FALSE, value |-> v]
\* decimal.InvalidOperation / decimal.DivisionByZero, both trapped
Raised == [raised |-> TRUE, value |-> "InvalidOperation"]

\* line 101 with the fee kept and the rest dropped
FeeOnly(amount, fee) == DecMul(amount, fee)

\* line 101
AmountAfterFee(amount, fee) == DecMul(amount, DecSub(DecInt(1), fee))

\* line 102, den the denominator reserve_in + amount_after_fee
Divide(num, den) == IF IsZero(den) THEN Raised ELSE Returned(DecDiv(num, den))

\* line 102
ConstantProduct(amount_after_fee, reserve_in, reserve_out) ==
    Divide(DecMul(amount_after_fee, reserve_out), DecAdd(reserve_in, amount_after_fee))

\* lines 95-98 with the reserves the other way round
ReserveInSwapped(pool, input_token) ==
    IF input_token = pool.token_a THEN pool.reserve_b ELSE pool.reserve_a

\* lines 95-98
ReserveIn(pool, input_token) ==
    IF input_token = pool.token_a THEN pool.reserve_a ELSE pool.reserve_b
ReserveOut(pool, input_token) ==
    IF input_token = pool.token_a THEN pool.reserve_b ELSE pool.reserve_a

simulate_swap(amount, pool, input_token) ==
    IF input_token # pool.token_a /\ input_token # pool.token_b
    THEN Returned(DecInt(0))
    ELSE ConstantProduct(AmountAfterFee(amount, pool.fee),
                         ReserveIn(pool, input_token), ReserveOut(pool, input_token))

-----------------------------------------------------------------------------
(* find_arbitrage_opportunities, lines 105-135, and the loop of main.      *)

VARIABLES
    pools,          \* the list of pool records find_arbitrage_opportunities is given
    snapshot,       \* history: the list as main fetched it
    base_token, amount_in, min_profit,
    pc,             \* where the program is
    opps,           \* main's opps: the list the last completed call returned
    pools_by_token, \* token -> list of positions in pools
    i1, i2, i3,     \* elements consumed by the three for loops
    tok1, amt1, tok2, amt2,
    opportunities,
    used            \* history: for each opportunity, the positions <<p1, p2, p3>>

vars == << pools, snapshot, base_token, amount_in, min_profit, pc, opps, pools_by_token,
           i1, i2, i3, tok1, amt1, tok2, amt2, opportunities, used >>

\* main's opps before the first call returns, and after a call returned v
Unbound == [bound |-> FALSE, value |-> << >>]
Bound(v) == [bound |-> TRUE, value |-> v]

\* dict.setdefault(k, []).append(v)
SetDefaultAppend(d, k, v) ==
    IF k \in DOMAIN d THEN [d EXCEPT ![k] = Append(@, v)] ELSE d @@ (k :> <<v>>)

\* dict.get(k, [])
Get(d, k) == IF k \in DOMAIN d THEN d[k] ELSE <<>>

RECURSIVE BuildIndex(_, _, _)
\* lines 107-110, from pool i on
BuildIndex(ps, i, d) ==
    IF i > Len(ps) THEN d
    ELSE BuildIndex(ps, i + 1,
             SetDefaultAppend(SetDefaultAppend(d, ps[i].token_a, i), ps[i].token_b, i))

\* lines 113, 118: p['token_b'] if p['token_a'] == tok else p['token_a']
OtherSide(pool, tok) == IF pool.token_a = tok THEN pool.token_b ELSE pool.token_a

\* lines 115, 122
NoOutput(amt) == DecLe(amt, DecInt(0))

\* line 119 without its test
NeverTwoHop(t2) == FALSE

\* line 119
TwoHopCycle(t2) == t2 = base_token

\* line 125 without its test
AnyPool(pool) == TRUE

\* line 125
ClosesCycle(pool) == base_token \in {pool.token_a, pool.token_b}

\* line 128
Profit(amt3) == DecSub(amt3, amount_in)

\* line 129 without its test
AnyProfit(profit) == TRUE

\* line 129
MeetsThreshold(profit) == DecGe(profit, min_profit)

\* lines 130-134
Opportunity(t1, t2, amt3, profit) ==
    [path |-> <<base_token, t1, t2, base_token>>, amount_out |-> amt3, profit |-> profit]

\* line 130 keeping the first Opportunity of each path only
EmitNewPath(list, opp) ==
    IF \E k \in 1..Len(list) : list[k].path = opp.path THEN list ELSE Append(list, opp)

\* line 130: opportunities.append
Emit(list, opp) == Append(list, opp)

inputs == << pools, snapshot, base_token, amount_in, min_profit >>

\* the locals of find_arbitrage_opportunities before the first call
NoFrame ==
    /\ pools_by_token = << >>
    /\ i1 = 0 /\ i2 = 0 /\ i3 = 0
    /\ tok1 = NoToken /\ tok2 = NoToken
    /\ amt1 = DecInt(0) /\ amt2 = DecInt(0)
    /\ opportunities = << >>
    /\ used = << >>

Init ==
    /\ pools \in PoolLists
    /\ snapshot = pools
    /\ base_token \in BaseTokens
    /\ amount_in \in Amounts
    /\ min_profit \in MinProfits
    /\ pc = "call"
    /\ opps = Unbound
    /\ NoFrame

\* the call with the loop of line 108 started at the second pool
CallFromSecond ==
    /\ pc = "call"
    /\ opportunities' = << >>
    /\ used' = << >>
    /\ pools_by_token' = BuildIndex(pools, 2, << >>)
    /\ i1' = 0
    /\ pc' = "hop1"
    /\ UNCHANGED << inputs, opps, i2, i3, tok1, amt1, tok2, amt2 >>

\* the call without line 106: the list of the round before is kept
CallAppending ==
    /\ pc = "call"
    /\ used' = << >>
    /\ pools_by_token' = BuildIndex(pools, 1, << >>)
    /\ i1' = 0
    /\ pc' = "hop1"
    /\ UNCHANGED << inputs, opps, i2, i3, tok1, amt1, tok2, amt2, opportunities >>

\* main line 199 calls; lines 106-110
Call ==
    /\ pc = "call"
    /\ opportunities' = << >>
    /\ used' = << >>
    /\ pools_by_token' = BuildIndex(pools, 1, << >>)
    /\ i1' = 0
    /\ pc' = "hop1"
    /\ UNCHANGED << inputs, opps, i2, i3, tok1, amt1, tok2, amt2 >>

\* lines 113-116, r the outcome of line 114
Hop1(p1, r) ==
    /\ i1' = i1 + 1
    /\ tok1' = OtherSide(p1, base_token)
    /\ IF r.raised
       THEN pc' = "raised" /\ UNCHANGED << amt1, i2 >>
       ELSE /\ amt1' = r.value
            /\ IF NoOutput(r.value)
               THEN pc' = "hop1" /\ UNCHANGED i2
               ELSE pc' = "hop2" /\ i2' = 0

\* lines 112-116: one round of `for p1 in pools_by_token.get(base_token, [])`
ForP1(lst) ==
    IF i1 >= Len(lst)
    THEN pc' = "return" /\ UNCHANGED << i1, i2, tok1, amt1 >>
    ELSE Hop1(pools[lst[i1 + 1]],
              simulate_swap(amount_in, pools[lst[i1 + 1]], base_token))

NextP1 ==
    /\ pc = "hop1"
    /\ ForP1(Get(pools_by_token, base_token))
    /\ UNCHANGED << inputs, opps, pools_by_token, i3, tok2, amt2, opportunities, used >>

\* lines 118-123, r the outcome of line 121
Hop2(t2, r) ==
    /\ i2' = i2 + 1
    /\ tok2' = t2
    /\ IF TwoHopCycle(t2)
       THEN pc' = "hop2" /\ UNCHANGED << amt2, i3 >>
       ELSE IF r.raised
       THEN pc' = "raised" /\ UNCHANGED << amt2, i3 >>
       ELSE /\ amt2' = r.value
            /\ IF NoOutput(r.value)
               THEN pc' = "hop2" /\ UNCHANGED i3
               ELSE pc' = "hop3" /\ i3' = 0

\* lines 117-123: one round of `for p2 in pools_by_token.get(tok1, [])`
ForP2(lst) ==
    IF i2 >= Len(lst)
    THEN pc' = "hop1" /\ UNCHANGED << i2, i3, tok2, amt2 >>
    ELSE Hop2(OtherSide(pools[lst[i2 + 1]], tok1),
              simulate_swap(amt1, pools[lst[i2 + 1]], tok1))

NextP2 ==
    /\ pc = "hop2"
    /\ ForP2(Get(pools_by_token, tok1))
    /\ UNCHANGED << inputs, opps, pools_by_token, i1, tok1, amt1, opportunities, used >>

\* the positions in pools of the p1, p2 and p3 of the round of `for p3` at hand
Triple == << Get(pools_by_token, base_token)[i1],
             Get(pools_by_token, tok1)[i2],
             Get(pools_by_token, tok2)[i3 + 1] >>

\* lines 129-134
Collect(amt3, profit) ==
    IF MeetsThreshold(profit)
    THEN /\ opportunities' = Emit(opportunities, Opportunity(tok1, tok2, amt3, profit))
         /\ used' = Append(used, Triple)
    ELSE UNCHANGED << opportunities, used >>

\* lines 125-134, r the outcome of line 127
Hop3(p3, r) ==
    /\ i3' = i3 + 1
    /\ IF ~ClosesCycle(p3)
       THEN pc' = "hop3" /\ UNCHANGED << opportunities, used >>
       ELSE IF r.raised
       THEN pc' = "raised" /\ UNCHANGED << opportunities, used >>
       ELSE pc' = "hop3" /\ Collect(r.value, Profit(r.value))

\* lines 124-134: one round of `for p3 in pools_by_token.get(tok2, [])`
ForP3(lst) ==
    IF i3 >= Len(lst)
    THEN pc' = "hop2" /\ UNCHANGED << i3, opportunities, used >>
    ELSE Hop3(pools[lst[i3 + 1]], simulate_swap(amt2, pools[lst[i3 + 1]], tok2))

NextP3 ==
    /\ pc = "hop3"
    /\ ForP3(Get(pools_by_token, tok2))
    /\ UNCHANGED << inputs, opps, pools_by_token, i1, i2, tok1, amt1, tok2, amt2 >>

\* line 135, back in main at line 199: opps = ...; lines 200-202, then the
\* next round of `while True`. The locals are gone; the list lives on as opps.
Return ==
    /\ pc = "return"
    /\ opps' = Bound(opportunities)
    /\ pools_by_token' = << >>
    /\ i1' = 0 /\ i2' = 0 /\ i3' = 0
    /\ tok1' = NoToken /\ tok2' = NoToken
    /\ amt1' = DecInt(0) /\ amt2' = DecInt(0)
    /\ used' = << >>
    /\ pc' = "call"
    /\ UNCHANGED << inputs, opportunities >>

Next == Call \/ NextP1 \/ NextP2 \/ NextP3 \/ Return

Spec == Init /\ [][Next]_vars

-----------------------------------------------------------------------------
(* The same program called, between two rounds, with its pools in another  *)
(* order.                                                                  *)

Permuted(ps, p) == [i \in 1..Len(ps) |-> ps[p[i]]]

\* the list is handed over in another order
Permute ==
    /\ pc = "call"
    /\ opps.bound
    /\ \E p \in Permutations(1..Len(pools)) : pools' = Permuted(pools, p)
    /\ snapshot' = pools'
    /\ UNCHANGED << base_token, amount_in, min_profit, pc, opps, pools_by_token,
                    i1, i2, i3, tok1, amt1, tok2, amt2, opportunities, used >>

NextPerm == Next \/ Permute

\* snapshots of pools with two different assets each
InitPerm == Init /\ \A i \in 1..Len(pools) : pools[i].token_a # pools[i].token_b

SpecPerm == InitPerm /\ [][NextPerm]_vars

-----------------------------------------------------------------------------
(* simulate_swap taken alone: one call, of any pool, amount and token.     *)

InitSwap ==
    /\ pools \in {<<p>> : p \in SwapPools}
    /\ snapshot = pools
    /\ base_token \in SwapTokens
    /\ amount_in \in SwapAmounts
    /\ min_profit = DecInt(0)
    /\ pc = "swap"
    /\ opps = Unbound
    /\ NoFrame

\* amt1 = simulate_swap(amount_in, pools[1], base_token), r its outcome
Swapped(r) ==
    IF r.raised
    THEN pc' = "raised" /\ UNCHANGED amt1
    ELSE pc' = "swapped" /\ amt1' = r.value

Swap ==
    /\ pc = "swap"
    /\ Swapped(simulate_swap(amount_in, pools[1], base_token))
    /\ UNCHANGED << inputs, opps, pools_by_token, i1, i2, i3, tok1, tok2, amt2,
                    opportunities, used >>

NextSwap == Swap

SpecSwap == InitSwap /\ [][NextSwap]_vars

-----------------------------------------------------------------------------
(* Properties.                                                             *)

Positive(x) == DecCmp(x, DecInt(0)) > 0

Contains(pool, tok) == tok \in {pool.token_a, pool.token_b}

\* every pool of the list has two different assets
DistinctAssets(ps) == \A i \in 1..Len(ps) : ps[i].token_a # ps[i].token_b

HasZeroReserve(pool) == IsZero(pool.reserve_a) \/ IsZero(pool.reserve_b)

\* the pool used at hop h of the k-th Opportunity
PoolAt(k, h) == pools[used[k][h]]

Finished == pc = "return"

\* C1: simulate_swap never raises, and returns 0 when the token is a side of
\* the pool and reserve_in and amount_in are both 0.
C1_NeverRaises ==
    /\ pc # "raised"
    /\ (/\ pc = "swapped"
        /\ Contains(pools[1], base_token)
        /\ IsZero(ReserveIn(pools[1], base_token))
        /\ IsZero(amount_in)) => IsZero(amt1)

\* the call with amount_in 0 into a side whose reserve is 0
C1_Witness ==
    /\ pc = "raised"
    /\ IsZero(amount_in)
    /\ IsZero(ReserveIn(pools[1], base_token))

\* C2: against a pool with a zero reserve, on either side, simulate_swap
\* returns 0 and does not divide by zero.
C2_ZeroReserveInert ==
    (pc \in {"swapped", "raised"} /\ HasZeroReserve(pools[1]))
        => (pc = "swapped" /\ IsZero(amt1))

\* an output other than 0 out of a pool whose input side is drained
C2_Witness ==
    /\ pc = "swapped"
    /\ IsZero(ReserveIn(pools[1], base_token))
    /\ Positive(amount_in)
    /\ Positive(amt1)

WellShaped(opp) ==
    /\ Len(opp.path) = 4
    /\ opp.path[1] = base_token
    /\ opp.path[4] = base_token
    /\ opp.profit = DecSub(opp.amount_out, amount_in)
    /\ DecCmp(opp.profit, min_profit) >= 0

\* C3: every Opportunity returned has a path of 4 assets that starts and ends
\* with base_token, profit = amount_out - amount_in and profit >= min_profit.
C3_WellShaped ==
    Finished => \A k \in 1..Len(opportunities) : WellShaped(opportunities[k])

\* a losing cycle returned under a negative min_profit
C3_Witness ==
    /\ Finished
    /\ DecCmp(min_profit, DecInt(0)) < 0
    /\ \E k \in 1..Len(opportunities) : DecCmp(opportunities[k].profit, DecInt(0)) < 0

\* hop 3 of a triple: r3 the output of p3 for the hop-2 output
Closes(r3) == ~r3.raised /\ DecCmp(DecSub(r3.value, amount_in), min_profit) >= 0

\* the triples <<a, b, c>> that qualify, the hop-2 output a2 of token t2 given
Thirds(a, b, t2, a2) ==
    {<<a, b, c>> : c \in {c \in 1..Len(pools) :
                             /\ Contains(pools[c], t2)
                             /\ Contains(pools[c], base_token)
                             /\ Closes(simulate_swap(a2, pools[c], t2))}}

\* hop 2 of a triple: r2 the output of pool b for the hop-1 output, t2 its token
Second(a, b, t2, r2) ==
    IF ~r2.raised /\ Positive(r2.value) THEN Thirds(a, b, t2, r2.value) ELSE {}

\* the triples <<a, b, c>> that qualify, the hop-1 output a1 of token t1 given
Seconds(a, t1, a1) ==
    UNION {Second(a, b, OtherSide(pools[b], t1), simulate_swap(a1, pools[b], t1)) :
              b \in {b \in 1..Len(pools) : /\ Contains(pools[b], t1)
                                           /\ OtherSide(pools[b], t1) # base_token}}

\* hop 1 of a triple: r1 the output of pool a for amount_in
First(a, r1) ==
    IF ~r1.raised /\ Positive(r1.value)
    THEN Seconds(a, OtherSide(pools[a], base_token), r1.value)
    ELSE {}

\* the triples of positions <<p1, p2, p3>> the claim describes
Qualifying ==
    UNION {First(a, simulate_swap(amount_in, pools[a], base_token)) :
              a \in {a \in 1..Len(pools) : Contains(pools[a], base_token)}}

LexLess(s, t) ==
    \/ s[1] < t[1]
    \/ s[1] = t[1] /\ s[2] < t[2]
    \/ s[1] = t[1] /\ s[2] = t[2] /\ s[3] < t[3]

\* the output of the third hop of the cycle over p1, p2, p3, r2 that of the second
ChainLast(p3, t2, r2) == simulate_swap(r2.value, p3, t2).value
\* r1 that of the first
ChainNext(p2, p3, t1, r1) ==
    ChainLast(p3, OtherSide(p2, t1), simulate_swap(r1.value, p2, t1))
Chain(p1, p2, p3) ==
    ChainNext(p2, p3, OtherSide(p1, base_token), simulate_swap(amount_in, p1, base_token))

\* the k-th Opportunity is the cycle over the k-th triple
OfTriple(opp, p1, p2, p3) ==
    /\ opp.path = << base_token, OtherSide(p1, base_token),
                     OtherSide(p2, OtherSide(p1, base_token)), base_token >>
    /\ opp.amount_out = Chain(p1, p2, p3)

\* one Opportunity for each qualifying triple, in the order of the triples
OnePerTriple ==
    /\ Len(opportunities) = Len(used)
    /\ \A k \in 1..(Len(used) - 1) : LexLess(used[k], used[k + 1])
    /\ {used[k] : k \in 1..Len(used)} = Qualifying
    /\ \A k \in 1..Len(used) :
           OfTriple(opportunities[k], PoolAt(k, 1), PoolAt(k, 2), PoolAt(k, 3))

\* C4: when every pool has two different assets, the list returned holds one
\* Opportunity for each triple of pools (p1, p2, p3) that qualifies, two cycles
\* of the same path included, in the lexicographic order of the positions.
C4_OnePerTriple == (Finished /\ DistinctAssets(pools)) => OnePerTriple

\* C4 as stated, for any list of pools
C4_AsStated == Finished => OnePerTriple

\* two Opportunities of one path, through two pools of the same pair
C4_Witness ==
    /\ Finished
    /\ DistinctAssets(pools)
    /\ \E j, k \in 1..Len(opportunities) :
           j < k /\ opportunities[j].path = opportunities[k].path

Pair(opp) == << opp.path, opp.amount_out >>

\* the multiset of the (path, amount_out) of a list of Opportunities
PairBag(list) ==
    [x \in {Pair(list[k]) : k \in 1..Len(list)} |->
        Cardinality({k \in 1..Len(list) : Pair(list[k]) = x})]

\* C5: for pools with two different assets each, the call on the list in
\* another order returns the same multiset of (path, amount_out).
C5_SameMultiset ==
    (Finished /\ opps.bound /\ DistinctAssets(pools))
        => PairBag(opportunities) = PairBag(opps.value)

\* the same Opportunities returned in another order
C5_Witness ==
    /\ Finished
    /\ opps.bound
    /\ DistinctAssets(pools)
    /\ Len(opportunities) >= 2
    /\ opportunities # opps.value

\* C6: the pools used at hop 1 and at hop 3 of an Opportunity hold
\* base_token; when every pool has two different assets, the pool used at
\* hop 2 does not.
C6_BaseAtEnds ==
    Finished =>
        \A k \in 1..Len(used) :
            /\ Contains(PoolAt(k, 1), base_token)
            /\ Contains(PoolAt(k, 3), base_token)
            /\ DistinctAssets(pools) => ~Contains(PoolAt(k, 2), base_token)

\* C6 as stated: no hop uses a pool without base_token
C6_AsStated ==
    Finished => \A k \in 1..Len(used) : \A h \in 1..3 : Contains(PoolAt(k, h), base_token)

\* a winning cycle whose hop 2 goes through a pool that holds no base_token
C6_Witness ==
    /\ Finished
    /\ \E k \in 1..Len(used) :
           /\ ~Contains(PoolAt(k, 2), base_token)
           /\ Positive(opportunities[k].profit)

\* the three pools of the example, in any order
IsTrio(ps) == Len(ps) = 3 /\ {ps[i] : i \in 1..3} = {PoolSA, PoolAB, PoolBS}

ExampleInputs ==
    /\ IsTrio(pools)
    /\ base_token = "S"
    /\ amount_in = DecInt(10)
    /\ min_profit = DecInt(0)

\* 10 through 1000/1000, 1000/1000 and 1000/2000: 19.41747572815533980582524271
ExampleOut ==
    Dec(0, << 1, 9, 4, 1, 7, 4, 7, 5, 7, 2, 8, 1, 5, 5, 3, 3, 9, 8, 0, 5, 8, 2, 5, 2,
              4, 2, 7, 1 >>, -26)

\* C7: on the three fee-free pools S-A 1000/1000, A-B 1000/1000 and B-S
\* 1000/2000, with amount_in 10 and min_profit 0, exactly one Opportunity is
\* returned, of path S, A, B, S and of the chained constant-product output;
\* the cycle S, B, A, S is not returned.
C7_Example ==
    (Finished /\ ExampleInputs) =>
        /\ Len(opportunities) = 1
        /\ opportunities[1].path = << "S", "A", "B", "S" >>
        /\ opportunities[1].amount_out = ExampleOut

C7_Witness == Finished /\ ExampleInputs /\ pools = << PoolBS, PoolSA, PoolAB >>

InLoops == pc \in {"hop1", "hop2", "hop3"}

\* above every index of a loop: a token has at most two entries for each pool
Top == 2 * Len(pools) + 1

\* where the call is in its three loops: the index of each loop it is in, Top
\* for a loop it is not in
Rank ==
    << i1,
       IF pc \in {"hop2", "hop3"} THEN i2 ELSE Top,
       IF pc = "hop3" THEN i3 ELSE Top >>

C8_Safe ==
    /\ (DistinctAssets(pools) /\ Positive(amount_in)) => pc # "raised"
    /\ (Finished /\ pools = << >>) => opportunities = << >>
    /\ InLoops => \A h \in 1..3 : Rank[h] <= Top

C8_Advances == (InLoops /\ InLoops') => LexLess(Rank, Rank')

\* C8: with pools of two different assets each and amount_in > 0 no call
\* raises, a zero reserve or not, and on an empty list the list returned is
\* empty; every step of the loops moves the call forward in an order that is
\* bounded, so the call ends.
C8_Total == []C8_Safe /\ [][C8_Advances]_vars

\* a cycle that entered through the drained side of a pool
C8_Witness ==
    /\ Finished
    /\ DistinctAssets(pools)
    /\ Positive(amount_in)
    /\ \E k \in 1..Len(used) :
           IsZero(ReserveIn(PoolAt(k, 1), base_token))

\* C9: a later round of the loop finds the pools as they were fetched and
\* returns the list the round before returned, in the same order.
C9_Repeatable ==
    /\ pools = snapshot
    /\ (Finished /\ opps.bound) => opportunities = opps.value

C9_Witness == Finished /\ opps.bound /\ Len(opportunities) >= 2

\* C10: when every pool has two different assets, the three assets of the
\* path of an Opportunity differ and so do the three pool entries it uses.
C10_Distinct ==
    (Finished /\ DistinctAssets(pools)) =>
        \A k \in 1..Len(used) :
            /\ Cardinality({opportunities[k].path[h] : h \in 1..3}) = 3
            /\ Cardinality({used[k][h] : h \in 1..3}) = 3

\* a cycle found among four pools, two of them of the pair of its last hop
C10_Witness ==
    /\ Finished
    /\ DistinctAssets(pools)
    /\ Len(pools) = 4
    /\ \E k \in 1..Len(used) :
           \E i \in 1..4 : i # used[k][3] /\ Contains(pools[i], base_token)
                           /\ Contains(pools[i], opportunities[k].path[3])

=============================================================================
